---- MODULE Spec2Model ----
(***************************************************************************)
(* kimai-csv-to-jira: a CSV time sheet is read by process_csv into a list  *)
(* of worklog records, and main then hands the records one by one to       *)
(* add_worklog_to_jira, which prints (dry run) or POSTs them to Jira.      *)
(*                                                                         *)
(* Text (CSV fields, task ids, time stamps) is a sequence of characters,   *)
(* each a string of its own, so that the regular expression, int() and     *)
(* strptime() are computed character by character as Python computes them. *)
(***************************************************************************)
EXTENDS Integers, Sequences, FiniteSets, TLC

VARIABLES environ, args, csvfile, pc, file_opened, records, idx, requests_sent,
          responded, stdout, exception

\* environ        the settings main reads with os.getenv
\* args           the parsed command line: dry_run and visibility
\* csvfile        what is at args.file_path: its header and its data rows
\* pc             where main is: "main" (before the credentials check),
\*                "process_csv", "loop" (at the head of the for loop), "post"
\*                (inside requests.post), "done" (returned) or "raised"
\*                (ended by an exception)
\* file_opened    whether process_csv has opened the file
\* records        the list process_csv returned
\* idx            the position of the for loop in records (0 before the loop)
\* requests_sent  the calls of requests.post so far, in order
\* responded      how many of them have returned a response
\* stdout         the lines printed so far, in order
\* exception      the exception that ended the run (NoException while none has)
vars == <<environ, args, csvfile, pc, file_opened, records, idx, requests_sent,
          responded, stdout, exception>>

\* Python's None (an unset environment variable, an absent CSV field, an
\* absent --visibility): a value that is no text. A text is a sequence of
\* single characters (or, for a setting that is never scanned, one chunk).
None == <<"None">>

\* What a call reports in `raised` when it returns normally, and what
\* `exception` holds while no exception has ended the run.
NoException == "NoException"

\* Longest CSV file (data rows) the model reads.
MaxRows == 2

---------------------------------------------------------------------------
(* Characters *)

Upper == {"A","B","C","D","E","F","G","H","I","J","K","L","M",
          "N","O","P","Q","R","S","T","U","V","W","X","Y","Z"}

\* A character that a string can hold (code points up to U+00FF) stands for
\* itself; any other character is written by the name of its code point, as
\* in "U+0663" for ARABIC-INDIC DIGIT THREE.
HexDigit == <<"0","1","2","3","4","5","6","7","8","9","A","B","C","D","E","F">>

\* n in hexadecimal, in at least `width` digits.
RECURSIVE Hex(_, _)
Hex(n, width) ==
    IF n < 16 /\ width <= 1 THEN HexDigit[n + 1]
    ELSE Hex(n \div 16, width - 1) \o HexDigit[(n % 16) + 1]

\* The character of code point n > 255.
CodePoint(n) == "U+" \o Hex(n, 4)

\* The digits strftime writes, and the ASCII digits in the order of their
\* values.
DigitChar == <<"0","1","2","3","4","5","6","7","8","9">>

\* The code points of the digits zero of the scripts of Unicode other than
\* ASCII's: in every script the digits of value 1 to 9 follow the zero.
DigitZero ==
    {\h0660, \h06F0, \h07C0, \h0966, \h09E6, \h0A66, \h0AE6, \h0B66,
     \h0BE6, \h0C66, \h0CE6, \h0D66, \h0DE6, \h0E50, \h0ED0, \h0F20,
     \h1040, \h1090, \h17E0, \h1810, \h1946, \h19D0, \h1A80, \h1A90,
     \h1B50, \h1BB0, \h1C40, \h1C50, \hA620, \hA8D0, \hA900, \hA9D0,
     \hA9F0, \hAA50, \hABF0, \hFF10, \h104A0, \h10D30, \h11066,
     \h110F0, \h11136, \h111D0, \h112F0, \h11450, \h114D0, \h11650,
     \h116C0, \h11730, \h118E0, \h11950, \h11C50, \h11D50, \h11DA0,
     \h16A60, \h16AC0, \h16B50, \h1D7CE, \h1D7D8, \h1D7E2, \h1D7EC,
     \h1D7F6, \h1E140, \h1E2F0, \h1E950, \h1FBF0}

\* The decimal digits of Unicode (category Nd): what \d of a str pattern
\* matches and what int() reads as a digit.
Digit ==
    {DigitChar[v + 1] : v \in 0..9} \cup {CodePoint(z + v) : z \in DigitZero, v \in 0..9}

\* What \s of a str pattern matches: the characters str.isspace() is true of.
\* After "\n" stands U+000B; after "\r" stand U+001C, U+001D, U+001E and
\* U+001F; after the blank stand U+0085 and U+00A0.
Whitespace ==
    {"\t", "\n", "", "\f", "\r", "", "", "", "", " ", "", " ",
     "U+1680", "U+2000", "U+2001", "U+2002", "U+2003", "U+2004", "U+2005",
     "U+2006", "U+2007", "U+2008", "U+2009", "U+200A", "U+2028", "U+2029",
     "U+202F", "U+205F", "U+3000"}

\* What int() strips from both ends of a str: the white space of \s other
\* than the four separators U+001C to U+001F.
IntWhitespace == Whitespace \ {"", "", "", ""}

\* The value of a decimal digit: its distance from the zero of its script.
DigitValue ==
    [c \in Digit |->
        CHOOSE v \in 0..9 :
            \/ c = DigitChar[v + 1]
            \/ \E z \in DigitZero : c = CodePoint(z + v)]

\* The index after the longest run of characters of S that starts at s[i].
RECURSIVE Span(_, _, _)
Span(s, i, S) == IF i <= Len(s) /\ s[i] \in S THEN Span(s, i + 1, S) ELSE i

\* The decimal value of the digits s[i..j-1], underscores skipped.
RECURSIVE Decimal(_, _, _, _)
Decimal(s, i, j, acc) ==
    IF i >= j THEN acc
    ELSE IF s[i] = "_" THEN Decimal(s, i + 1, j, acc)
    ELSE Decimal(s, i + 1, j, 10 * acc + DigitValue[s[i]])

\* The decimal digits of n >= 0, at least `width` of them.
RECURSIVE Digits(_, _)
Digits(n, width) ==
    IF n < 10 /\ width <= 1 THEN <<DigitChar[n + 1]>>
    ELSE Append(Digits(n \div 10, width - 1), DigitChar[(n % 10) + 1])

---------------------------------------------------------------------------
(* re.match(task_regex, description), for the default TASK_REGEX *)

\* The default TASK_REGEX applied at the start of `description`: group 1 is
\* letters, a dash and digits; group 2 an optional colon and white space;
\* group 3 the rest of the line ('.' does not match a newline). Every
\* quantifier is greedy and none can give a character back to its successor,
\* so each part of the pattern ends where the longest run of its characters
\* ends: the letters at a, the digits at b, the colon at c, the white space
\* at d and the rest at e. re.match(pattern, None) raises TypeError.
re_match(description) ==
    IF description = None THEN [raised |-> "TypeError"]
    ELSE
    LET n == Len(description)
        Groups(a, b, c, d, e) ==
            IF /\ a > 1
               /\ a <= n /\ description[a] = "-"
               /\ b > a + 1
               /\ d > c
            THEN [raised |-> NoException, matched |-> TRUE,
                  group1 |-> SubSeq(description, 1, b - 1),
                  group2 |-> SubSeq(description, b, d - 1),
                  group3 |-> SubSeq(description, d, e - 1)]
            ELSE [raised |-> NoException, matched |-> FALSE]
        Rest(a, b, c, d) ==
            Groups(a, b, c, d,
                   Span(description, d, {description[k] : k \in 1..n} \ {"\n"}))
        Blank(a, b, c) == Rest(a, b, c, Span(description, c, Whitespace))
        Colon(a, b) ==
            Blank(a, b, IF b <= n /\ description[b] = ":" THEN b + 1 ELSE b)
        Number(a) == Colon(a, Span(description, a + 1, Digit))
    IN  Number(Span(description, 1, Upper))

---------------------------------------------------------------------------
(* int(text) *)

\* int() of a str: white space stripped at both ends, an optional sign, then
\* decimal digits of any script with single underscores between them;
\* anything else is a ValueError, and int(None) a TypeError.
py_int(text) ==
    IF text = None THEN [raised |-> "TypeError"]
    ELSE
    LET n == Len(text)
        \* text[lo..hi] is the text without the white space at its ends.
        Stripped(lo, hi) ==
            LET signed == lo <= hi /\ text[lo] \in {"+", "-"}
                first == IF signed THEN lo + 1 ELSE lo
                wellFormed ==
                    /\ first <= hi
                    /\ \A k \in first..hi : text[k] \in Digit \cup {"_"}
                    /\ text[first] # "_" /\ text[hi] # "_"
                    /\ \A k \in first..(hi - 1) : ~(text[k] = "_" /\ text[k + 1] = "_")
            IN  IF ~wellFormed THEN [raised |-> "ValueError"]
                ELSE IF signed /\ text[lo] = "-"
                THEN [raised |-> NoException, value |-> 0 - Decimal(text, first, hi + 1, 0)]
                ELSE [raised |-> NoException, value |-> Decimal(text, first, hi + 1, 0)]
        Strip(lo) ==
            Stripped(lo, IF lo > n THEN n
                         ELSE CHOOSE j \in lo..n :
                                 /\ text[j] \notin IntWhitespace
                                 /\ \A k \in (j + 1)..n : text[k] \in IntWhitespace)
    IN  Strip(Span(text, 1, IntWhitespace))

---------------------------------------------------------------------------
(* datetime.strptime, pytz and strftime *)

IsLeap(year) == (year % 4 = 0 /\ year % 100 # 0) \/ year % 400 = 0

DaysInMonth(year, month) ==
    IF month = 2 THEN (IF IsLeap(year) THEN 29 ELSE 28)
    ELSE IF month \in {4, 6, 9, 11} THEN 30 ELSE 31

\* datetime.strptime(start_time, "%Y-%m-%d %H:%M"). The format is compiled
\* to a regular expression of one group per directive,
\*   %Y  \d\d\d\d
\*   %m  1[0-2]|0[1-9]|[1-9]
\*   %d  3[0-1]|[1-2]\d|0[1-9]|[1-9]| [1-9]
\*   %H  2[0-3]|[0-1]\d|\d
\*   %M  [0-5]\d|\d
\* with the dashes and the colon between them and \s+ for the blank. \d is
\* a decimal digit of any script, a bracketed range ASCII digits only. What
\* follows a group is no digit, so a group takes the whole run of digits at
\* its place, and matches when one of its alternatives is that run. The
\* groups are read with int(), nothing may be left over, and the date must
\* exist. Anything else raises ValueError.
strptime(start_time) ==
    LET n == Len(start_time)
        At(i, ch) == i <= n /\ start_time[i] = ch
        In(i, S) == i <= n /\ start_time[i] \in S
        OneToNine == {"1","2","3","4","5","6","7","8","9"}
        \* The groups: whether an alternative is the run of digits from i to
        \* j - 1 (for %d, after the blank of its last alternative if `blank`).
        Y(i, j) == j - i = 4
        m(i, j) ==
            \/ j - i = 2 /\ At(i, "1") /\ In(i + 1, {"0","1","2"})
            \/ j - i = 2 /\ At(i, "0") /\ In(i + 1, OneToNine)
            \/ j - i = 1 /\ In(i, OneToNine)
        d(i, j, blank) ==
            IF blank THEN j - i = 1
            ELSE \/ j - i = 2 /\ At(i, "3") /\ In(i + 1, {"0","1"})
                 \/ j - i = 2 /\ In(i, {"1","2"})
                 \/ j - i = 2 /\ At(i, "0") /\ In(i + 1, OneToNine)
                 \/ j - i = 1 /\ In(i, OneToNine)
        H(i, j) ==
            \/ j - i = 2 /\ At(i, "2") /\ In(i + 1, {"0","1","2","3"})
            \/ j - i = 2 /\ In(i, {"0","1"})
            \/ j - i = 1
        M(i, j) ==
            \/ j - i = 2 /\ In(i, {"0","1","2","3","4","5"})
            \/ j - i = 1
        \* datetime(year, month, day, hour, minute) of the groups read.
        Date(value) ==
            IF value[1] >= 1 /\ value[3] <= DaysInMonth(value[1], value[2])
            THEN [raised |-> NoException, year |-> value[1], month |-> value[2],
                  day |-> value[3], hour |-> value[4], minute |-> value[5]]
            ELSE [raised |-> "ValueError"]
        \* The match, given where each run of digits begins and ends.
        Match(yEnd, mEnd, blank, dBeg, dEnd, hBeg, hEnd, minEnd) ==
            IF /\ Y(1, yEnd) /\ At(yEnd, "-")
               /\ m(yEnd + 1, mEnd) /\ At(mEnd, "-")
               /\ d(dBeg, dEnd, blank)
               /\ hBeg > dEnd
               /\ H(hBeg, hEnd) /\ At(hEnd, ":")
               /\ M(hEnd + 1, minEnd) /\ minEnd = n + 1
            THEN LET from == <<1, yEnd + 1, dBeg, hBeg, hEnd + 1>>
                     to == <<yEnd, mEnd, dEnd, hEnd, minEnd>>
                 IN  Date([k \in 1..5 |-> Decimal(start_time, from[k], to[k], 0)])
            ELSE [raised |-> "ValueError"]
        Minute(yEnd, mEnd, blank, dBeg, dEnd, hBeg, hEnd) ==
            Match(yEnd, mEnd, blank, dBeg, dEnd, hBeg, hEnd,
                  Span(start_time, hEnd + 1, Digit))
        Hour(yEnd, mEnd, blank, dBeg, dEnd, hBeg) ==
            Minute(yEnd, mEnd, blank, dBeg, dEnd, hBeg, Span(start_time, hBeg, Digit))
        Blank(yEnd, mEnd, blank, dBeg, dEnd) ==
            Hour(yEnd, mEnd, blank, dBeg, dEnd, Span(start_time, dEnd, Whitespace))
        Day(yEnd, mEnd, blank, dBeg) ==
            Blank(yEnd, mEnd, blank, dBeg, Span(start_time, dBeg, Digit))
        BlankDay(yEnd, mEnd, blank) ==
            Day(yEnd, mEnd, blank, IF blank THEN mEnd + 2 ELSE mEnd + 1)
        Month(yEnd, mEnd) ==
            BlankDay(yEnd, mEnd, At(mEnd + 1, " ") /\ In(mEnd + 2, OneToNine))
        Year(yEnd) == Month(yEnd, Span(start_time, yEnd + 1, Digit))
    IN  Year(Span(start_time, 1, Digit))

\* The time zones of the model: pytz.timezone(name) of any other name raises
\* UnknownTimeZoneError. Both are fixed-offset zones, so localize() attaches
\* the same offset to every date.
UtcOffset == (<<"GMT">> :> <<"+","0","0","0","0">>) @@
             (<<"Etc/GMT-1">> :> <<"+","0","1","0","0">>)

pytz_timezone(timezone_str) ==
    IF timezone_str \in DOMAIN UtcOffset
    THEN [raised |-> NoException, utcoffset |-> UtcOffset[timezone_str]]
    ELSE [raised |-> "UnknownTimeZoneError"]

\* start_time_aware.strftime("%Y-%m-%dT%H:%M:%S.000%z"): the seconds of a
\* parsed start time are 0 (the format reads none), and %Y is the year
\* without leading zeros, as the C library prints it.
strftime(dt, utcoffset) ==
    Digits(dt.year, 1) \o <<"-">> \o Digits(dt.month, 2) \o <<"-">> \o
    Digits(dt.day, 2) \o <<"T">> \o Digits(dt.hour, 2) \o <<":">> \o
    Digits(dt.minute, 2) \o <<":", "0", "0", ".", "0", "0", "0">> \o utcoffset

\* str(x) as an f-string formats it.
py_str(x) == IF x = None THEN <<"N", "o", "n", "e">> ELSE x

\* Python truthiness of a setting: None and the empty string are false.
truthy(x) == x # None /\ x # <<>>

---------------------------------------------------------------------------
(* csv.DictReader and process_csv *)

\* column_names of main: the defaults of COLUMN_DESCRIPTION, COLUMN_DURATION,
\* COLUMN_DATE and COLUMN_TIME.
column_names == [description |-> <<"Popis">>, duration |-> <<"Doba trvání">>,
                 date |-> <<"Datum">>, time |-> <<"Od">>]

\* The last column of the header that is called `name`, 0 when there is none.
\* DictReader builds the row as dict(zip(fieldnames, row)) and then sets the
\* columns past the end of the row to restval, so of two columns of one name
\* the later one gives the value.
last_column(fieldnames, name) ==
    LET columns == {i \in 1..Len(fieldnames) : fieldnames[i] = name}
    IN  IF columns = {} THEN 0
        ELSE CHOOSE i \in columns : \A j \in columns : j <= i

\* A variant of row_get that reads the row as row.get(name) would: None for a
\* column the header lacks. C8 tells it from row_get.
row_get_or_none(fieldnames, row, name) ==
    LET i == last_column(fieldnames, name)
    IN  IF i = 0 THEN [raised |-> NoException, value |-> None]
        ELSE [raised |-> NoException,
              value |-> IF i <= Len(row) THEN row[i] ELSE None]

\* row[name] of a DictReader row: the field under the last column called
\* `name`, None (restval) where the row ends before that column, KeyError
\* where the header has no such column.
row_get(fieldnames, row, name) ==
    LET i == last_column(fieldnames, name)
    IN  IF i = 0 THEN [raised |-> "KeyError"]
        ELSE [raised |-> NoException,
              value |-> IF i <= Len(row) THEN row[i] ELSE None]

\* A variant of process_row that skips a matching row whose duration int()
\* rejects, as it skips a row that does not match. C7 tells it from
\* process_row.
process_row_skipping_bad_duration(fieldnames, row, names) ==
    LET description == row_get(fieldnames, row, names.description)
        match == re_match(description.value)
        duration == row_get(fieldnames, row, names.duration)
        time_spent_seconds == py_int(duration.value)
        date == row_get(fieldnames, row, names.date)
        time == row_get(fieldnames, row, names.time)
    IN  IF description.raised # NoException THEN [raised |-> description.raised]
        ELSE IF match.raised # NoException THEN [raised |-> match.raised]
        ELSE IF ~match.matched THEN [raised |-> NoException, matched |-> FALSE]
        ELSE IF duration.raised # NoException THEN [raised |-> duration.raised]
        ELSE IF time_spent_seconds.raised # NoException
             THEN [raised |-> NoException, matched |-> FALSE]
        ELSE IF date.raised # NoException THEN [raised |-> date.raised]
        ELSE IF time.raised # NoException THEN [raised |-> time.raised]
        ELSE [raised |-> NoException, matched |-> TRUE,
              record |-> [task_id |-> match.group1,
                          task_description |-> match.group3,
                          time_spent_seconds |-> time_spent_seconds.value,
                          start_time |-> py_str(date.value) \o <<" ">> \o
                                         py_str(time.value)]]

\* The body of the for loop of process_csv for one row: the lookups and
\* conversions in the order the code makes them, the first exception ending
\* the row. `matched` tells whether the row yields a record.
process_row(fieldnames, row, names) ==
    LET description == row_get(fieldnames, row, names.description)
        match == re_match(description.value)
        duration == row_get(fieldnames, row, names.duration)
        time_spent_seconds == py_int(duration.value)
        date == row_get(fieldnames, row, names.date)
        time == row_get(fieldnames, row, names.time)
    IN  IF description.raised # NoException THEN [raised |-> description.raised]
        ELSE IF match.raised # NoException THEN [raised |-> match.raised]
        ELSE IF ~match.matched THEN [raised |-> NoException, matched |-> FALSE]
        ELSE IF duration.raised # NoException THEN [raised |-> duration.raised]
        ELSE IF time_spent_seconds.raised # NoException
             THEN [raised |-> time_spent_seconds.raised]
        ELSE IF date.raised # NoException THEN [raised |-> date.raised]
        ELSE IF time.raised # NoException THEN [raised |-> time.raised]
        ELSE [raised |-> NoException, matched |-> TRUE,
              record |-> [task_id |-> match.group1,
                          task_description |-> match.group3,
                          time_spent_seconds |-> time_spent_seconds.value,
                          start_time |-> py_str(date.value) \o <<" ">> \o
                                         py_str(time.value)]]

\* A variant of process_rows that leaves the loop at the first row that does
\* not match, instead of going on to the next row. C3 tells it from
\* process_rows.
RECURSIVE process_rows_until_mismatch(_, _, _, _, _)
process_rows_until_mismatch(fieldnames, rows, i, names, acc) ==
    IF i > Len(rows) THEN [raised |-> NoException, records |-> acc]
    ELSE IF rows[i] = <<>>
    THEN process_rows_until_mismatch(fieldnames, rows, i + 1, names, acc)
    ELSE LET r == process_row(fieldnames, rows[i], names)
         IN  IF r.raised # NoException THEN [raised |-> r.raised, records |-> <<>>]
             ELSE IF ~r.matched THEN [raised |-> NoException, records |-> acc]
             ELSE process_rows_until_mismatch(fieldnames, rows, i + 1, names,
                                              Append(acc, r.record))

\* The for loop of process_csv from row i on, `acc` the records so far.
\* DictReader skips a row without fields (a blank line).
RECURSIVE process_rows(_, _, _, _, _)
process_rows(fieldnames, rows, i, names, acc) ==
    IF i > Len(rows) THEN [raised |-> NoException, records |-> acc]
    ELSE IF rows[i] = <<>> THEN process_rows(fieldnames, rows, i + 1, names, acc)
    ELSE LET r == process_row(fieldnames, rows[i], names)
         IN  IF r.raised # NoException THEN [raised |-> r.raised, records |-> <<>>]
             ELSE process_rows(fieldnames, rows, i + 1, names,
                               IF r.matched THEN Append(acc, r.record) ELSE acc)

\* process_csv(file_path, column_names, task_regex), `file` being what is at
\* file_path: open() raises FileNotFoundError when there is no file.
process_csv(file, names) ==
    IF ~file.exists THEN [raised |-> "FileNotFoundError", records |-> <<>>]
    ELSE process_rows(file.fieldnames, file.rows, 1, names, <<>>)

---------------------------------------------------------------------------
(* add_worklog_to_jira *)

\* The start time in the form Jira reads: the time zone is looked up, the
\* start time parsed, localized and formatted, the first exception ending the
\* call.
format_start_time(start_time, timezone_str) ==
    LET local_tz == pytz_timezone(timezone_str)
        start_time_dt == strptime(start_time)
    IN  IF local_tz.raised # NoException THEN [raised |-> local_tz.raised]
        ELSE IF start_time_dt.raised # NoException THEN [raised |-> start_time_dt.raised]
        ELSE [raised |-> NoException,
              value |-> strftime(start_time_dt, local_tz.utcoffset)]

\* The line of a dry run.
dry_run_line(record, start_time_formatted) ==
    [kind |-> "dry_run", task_id |-> record.task_id,
     seconds |-> record.time_spent_seconds, started |-> start_time_formatted,
     text |-> record.task_description, status |-> 0]

\* What requests.post is given: the worklog URL of the task, the basic
\* authentication and the payload: the description as the one paragraph of
\* the comment, the start, the seconds, and the visibility group only when
\* one is given (None stands for the key being absent).
post_request(record, env, arguments, start_time_formatted) ==
    [url |-> env.JIRA_URL \o <<"/rest/api/3/issue/">> \o record.task_id \o
             <<"/worklog">>,
     auth |-> <<env.JIRA_USERNAME, env.JIRA_API_TOKEN>>,
     payload |-> [comment |-> record.task_description,
                  started |-> start_time_formatted,
                  timeSpentSeconds |-> record.time_spent_seconds,
                  visibility |-> IF truthy(arguments.visibility)
                                 THEN arguments.visibility ELSE None]]

\* A variant of add_worklog_to_jira that does not read dry_run and posts in
\* every run. C2 tells it from add_worklog_to_jira.
add_worklog_ignoring_dry_run(record, env, arguments) ==
    LET started == format_start_time(record.start_time, env.TIMEZONE)
    IN  IF started.raised # NoException
        THEN [step |-> "raise", raised |-> started.raised]
        ELSE [step |-> "post",
              request |-> post_request(record, env, arguments, started.value)]

\* A variant of add_worklog_to_jira that reads dry_run first and prints the
\* start time as the record has it, formatting it only for a POST. C10 tells
\* it from add_worklog_to_jira.
add_worklog_dry_run_first(record, env, arguments) ==
    LET started == format_start_time(record.start_time, env.TIMEZONE)
    IN  IF arguments.dry_run
        THEN [step |-> "print", line |-> dry_run_line(record, record.start_time)]
        ELSE IF started.raised # NoException
        THEN [step |-> "raise", raised |-> started.raised]
        ELSE [step |-> "post",
              request |-> post_request(record, env, arguments, started.value)]

\* add_worklog_to_jira up to the point where it prints or posts: the start
\* time is formatted and the payload built before dry_run is read. `step` is
\* "raise" (with the exception), "print" (dry run, with the line printed) or
\* "post" (with the request handed to requests.post).
add_worklog_to_jira(record, env, arguments) ==
    LET started == format_start_time(record.start_time, env.TIMEZONE)
    IN  IF started.raised # NoException
        THEN [step |-> "raise", raised |-> started.raised]
        ELSE IF arguments.dry_run
        THEN [step |-> "print", line |-> dry_run_line(record, started.value)]
        ELSE [step |-> "post",
              request |-> post_request(record, env, arguments, started.value)]

\* A line about the outcome of a POST, as the status branches print it.
outcome_line(kind, task_id, status, text) ==
    [kind |-> kind, task_id |-> task_id, seconds |-> 0, started |-> <<>>,
     text |-> text, status |-> status]

\* response.json().get('message', 'No additional information provided'): the
\* body has to decode (JSONDecodeError) to an object (a list has no get:
\* AttributeError).
json_message(response) ==
    IF response.json = "invalid" THEN [raised |-> "JSONDecodeError"]
    ELSE IF response.json = "list" THEN [raised |-> "AttributeError"]
    ELSE [raised |-> NoException,
          value |-> IF response.message # None THEN response.message
                    ELSE <<"No additional information provided">>]

\* The if/elif chain on response.status_code: the line printed, or the
\* exception raised while the line is formatted.
interpret_response(task_id, response) ==
    IF response.status_code = 201
    THEN [raised |-> NoException, line |-> outcome_line("added", task_id, 201, <<>>)]
    ELSE IF response.status_code = 400
    THEN LET message == json_message(response)
         IN  IF message.raised # NoException THEN [raised |-> message.raised]
             ELSE [raised |-> NoException,
                   line |-> outcome_line("bad_request", task_id, 400, message.value)]
    ELSE IF response.status_code = 401
    THEN [raised |-> NoException, line |-> outcome_line("unauthorized", task_id, 401, <<>>)]
    ELSE IF response.status_code = 404
    THEN [raised |-> NoException, line |-> outcome_line("not_found", task_id, 404, <<>>)]
    ELSE IF response.status_code = 413
    THEN [raised |-> NoException, line |-> outcome_line("too_large", task_id, 413, <<>>)]
    ELSE [raised |-> NoException,
          line |-> outcome_line("other", task_id, response.status_code, response.text)]

---------------------------------------------------------------------------
(* Inputs: the environment, the command line, the file, the server *)

\* JIRA_URL, JIRA_USERNAME, JIRA_API_TOKEN as os.getenv returns them (all
\* set, or one of them unset or empty) and TIMEZONE.
Environments ==
    LET url == <<"https://jira.example">>
        user == <<"kim">>
        token == <<"s3cr3t">>
        credentials == {<<url, user, token>>, <<None, user, token>>,
                        <<url, <<>>, token>>, <<url, user, None>>}
    IN  {[JIRA_URL |-> c[1], JIRA_USERNAME |-> c[2], JIRA_API_TOKEN |-> c[3],
          TIMEZONE |-> tz] :
            c \in credentials,
            tz \in {<<"GMT">>, <<"Etc/GMT-1">>, <<"Mars/Olympus">>}}

\* --dry-run and --visibility of the command line.
Arguments == [dry_run : BOOLEAN, visibility : {None, <<"jira-developers">>}]

\* The header of a complete export, in file order.
FullHeader == <<column_names.date, column_names.time, column_names.description,
                column_names.duration>>

Date_2024_01_15 == <<"2","0","2","4","-","0","1","-","1","5">>
Date_15_01_2024 == <<"1","5",".","0","1",".","2","0","2","4">>

\* Data rows under FullHeader: two rows that submit (one with a negative
\* duration), a row whose date is not in ISO form, a row without a task id,
\* a row whose duration is not an integer, a row cut short before its
\* duration, and a blank line.
RowSamples ==
    { <<Date_2024_01_15, <<"0","9",":","3","0">>,
        <<"P","R","O","J","-","4","2",":"," ","F","i","x","e","d"," ","b","u","g">>,
        <<"3","6","0","0">>>>,
      <<Date_2024_01_15, <<"8",":","0","5">>,
        <<"O","P","S","-","3","\t","c","a","l","l">>,
        <<"-","6","0">>>>,
      <<Date_15_01_2024, <<"1","4",":","0","5">>,
        <<"A","B","-","7"," ","R","e","v","i","e","w">>,
        <<" ","9","0","0">>>>,
      <<Date_2024_01_15, <<"1","2",":","0","0">>,
        <<"l","u","n","c","h">>,
        <<>>>>,
      <<Date_2024_01_15, <<"1","3",":","0","0">>,
        <<"P","R","O","J","-","4","2",":"," ","F","i","x","e","d"," ","b","u","g">>,
        <<"1",".","5">>>>,
      <<Date_2024_01_15, <<"1","6",":","4","5">>,
        <<"Q","A","-","1"," ","t","e","s","t">>>>,
      <<Date_2024_01_15, <<"U+0669",":","3","0">>,
        <<"A","B","-","U+0663"," ","f","o","o">>,
        <<"","U+0661","U+0662">>>>,
      <<>> }

\* `s` without its j-th element (s itself when it has none).
DropNth(s, j) ==
    IF j \in 1..Len(s) THEN SubSeq(s, 1, j - 1) \o SubSeq(s, j + 1, Len(s)) ELSE s

\* `row` as a file has it whose first column is one more description
\* column, holding a note that names no task.
WithNote(row) == IF row = <<>> THEN row ELSE << <<"n","o","t","e">> >> \o row

\* What may be at file_path: nothing, or a CSV file of at most MaxRows data
\* rows, exported with all four columns (j = 0), without the j-th of them,
\* or with a second description column in front of the four.
Files ==
    {[exists |-> FALSE, fieldnames |-> <<>>, rows |-> <<>>]} \cup
    {[exists |-> TRUE,
      fieldnames |-> DropNth(FullHeader, j),
      rows |-> [i \in 1..n |-> DropNth(rows[i], j)]] :
        j \in 0..Len(FullHeader), n \in 0..MaxRows, rows \in [1..MaxRows -> RowSamples]}
    \cup
    {[exists |-> TRUE,
      fieldnames |-> <<column_names.description>> \o FullHeader,
      rows |-> [i \in 1..n |-> WithNote(rows[i])]] :
        n \in 0..MaxRows, rows \in [1..MaxRows -> RowSamples]}

\* The bodies a response may carry: a JSON object with a "message", Jira's
\* error object (no "message"), a JSON list, and a body that is no JSON.
Bodies ==
    {[text |-> <<"{\"message\": \"Worklog is invalid\"}">>, json |-> "dict",
      message |-> <<"Worklog is invalid">>],
     [text |-> <<"{\"errorMessages\": [], \"errors\": {}}">>, json |-> "dict",
      message |-> None],
     [text |-> <<"[]">>, json |-> "list", message |-> None],
     [text |-> <<"<html>Bad Gateway</html>">>, json |-> "invalid", message |-> None]}

\* What the server may answer to a POST: any of the statuses the code tells
\* apart (502 standing for every other one) with any of the bodies.
Responses ==
    {[status_code |-> code, text |-> b.text, json |-> b.json, message |-> b.message] :
        code \in {201, 400, 401, 404, 413, 502}, b \in Bodies}

\* What requests.post raises when no response arrives.
TransportFaults == {"ConnectionError", "SSLError"}

---------------------------------------------------------------------------
(* main *)

Init ==
    /\ environ \in Environments
    /\ args \in Arguments
    /\ csvfile \in Files
    /\ pc = "main"
    /\ file_opened = FALSE
    /\ records = <<>>
    /\ idx = 0
    /\ requests_sent = <<>>
    /\ responded = 0
    /\ stdout = <<>>
    /\ exception = NoException

\* A variant of credentials_missing that leaves the token out of the test.
\* C6 tells it from credentials_missing.
credentials_missing_token_unchecked(env) ==
    \/ ~truthy(env.JIRA_URL)
    \/ ~truthy(env.JIRA_USERNAME)

\* `if not jira_url or not jira_username or not jira_token`.
credentials_missing(env) ==
    \/ ~truthy(env.JIRA_URL)
    \/ ~truthy(env.JIRA_USERNAME)
    \/ ~truthy(env.JIRA_API_TOKEN)

\* main from its start to the credentials check: without credentials it
\* prints the message and returns.
Main_CheckCredentials ==
    /\ pc = "main"
    /\ IF credentials_missing(environ)
       THEN /\ stdout' = Append(stdout, outcome_line("missing_credentials", <<>>, 0, <<>>))
            /\ pc' = "done"
       ELSE /\ pc' = "process_csv"
            /\ UNCHANGED stdout
    /\ UNCHANGED <<environ, args, csvfile, file_opened, records, idx, requests_sent,
                   responded, exception>>

\* records = process_csv(args.file_path, column_names, task_regex): the file
\* is read to its end before main goes on; an exception of process_csv is
\* caught nowhere and ends the run.
Main_ProcessCsv ==
    /\ pc = "process_csv"
    /\ LET result == process_csv(csvfile, column_names)
       IN  /\ file_opened' = csvfile.exists
           /\ IF result.raised # NoException
              THEN /\ exception' = result.raised
                   /\ pc' = "raised"
                   /\ UNCHANGED <<records, idx>>
              ELSE /\ records' = result.records
                   /\ idx' = 1
                   /\ pc' = "loop"
                   /\ UNCHANGED exception
    /\ UNCHANGED <<environ, args, csvfile, requests_sent, responded, stdout>>

\* `for record in records` with no record left: main returns.
Main_LoopEnd ==
    /\ pc = "loop"
    /\ idx > Len(records)
    /\ pc' = "done"
    /\ UNCHANGED <<environ, args, csvfile, file_opened, records, idx, requests_sent,
                   responded, stdout, exception>>

\* add_worklog_to_jira(record) raises before it prints or posts: the
\* exception passes through main and ends the run.
Submit_Raise ==
    /\ pc = "loop"
    /\ idx <= Len(records)
    /\ LET call == add_worklog_to_jira(records[idx], environ, args)
       IN  /\ call.step = "raise"
           /\ exception' = call.raised
    /\ pc' = "raised"
    /\ UNCHANGED <<environ, args, csvfile, file_opened, records, idx, requests_sent,
                   responded, stdout>>

\* add_worklog_to_jira(record) with dry_run: the line is printed, the call
\* returns and the loop goes on to the next record.
Submit_DryRun ==
    /\ pc = "loop"
    /\ idx <= Len(records)
    /\ LET call == add_worklog_to_jira(records[idx], environ, args)
       IN  /\ call.step = "print"
           /\ stdout' = Append(stdout, call.line)
    /\ idx' = idx + 1
    /\ UNCHANGED <<environ, args, csvfile, pc, file_opened, records, requests_sent,
                   responded, exception>>

\* add_worklog_to_jira(record) reaches requests.post: the request leaves and
\* the call blocks until the server answers or the transport fails.
Submit_Post ==
    /\ pc = "loop"
    /\ idx <= Len(records)
    /\ LET call == add_worklog_to_jira(records[idx], environ, args)
       IN  /\ call.step = "post"
           /\ requests_sent' = Append(requests_sent, call.request)
    /\ pc' = "post"
    /\ UNCHANGED <<environ, args, csvfile, file_opened, records, idx, responded,
                   stdout, exception>>

\* A variant of Post_Response that posts the record again when the answer is
\* not a 201. C1 tells it from Post_Response.
Post_Response_Retrying ==
    /\ pc = "post"
    /\ \E response \in Responses :
         LET outcome == interpret_response(records[idx].task_id, response)
         IN  IF outcome.raised # NoException
             THEN /\ exception' = outcome.raised
                  /\ pc' = "raised"
                  /\ UNCHANGED <<stdout, idx>>
             ELSE /\ stdout' = Append(stdout, outcome.line)
                  /\ idx' = IF response.status_code = 201 THEN idx + 1 ELSE idx
                  /\ pc' = "loop"
                  /\ UNCHANGED exception
    /\ responded' = responded + 1
    /\ UNCHANGED <<environ, args, csvfile, file_opened, records, requests_sent>>

\* requests.post returns a response: its status is interpreted and the
\* outcome printed, and the loop goes on to the next record; an exception
\* raised while the line is formatted ends the run.
Post_Response ==
    /\ pc = "post"
    /\ \E response \in Responses :
         LET outcome == interpret_response(records[idx].task_id, response)
         IN  IF outcome.raised # NoException
             THEN /\ exception' = outcome.raised
                  /\ pc' = "raised"
                  /\ UNCHANGED <<stdout, idx>>
             ELSE /\ stdout' = Append(stdout, outcome.line)
                  /\ idx' = idx + 1
                  /\ pc' = "loop"
                  /\ UNCHANGED exception
    /\ responded' = responded + 1
    /\ UNCHANGED <<environ, args, csvfile, file_opened, records, requests_sent>>

\* A variant of Post_TransportFault in which the call is enclosed in a try
\* statement: the fault is printed as the failure of the record and the loop
\* goes on. C5 tells it from Post_TransportFault.
Post_TransportFault_Reported ==
    /\ pc = "post"
    /\ \E fault \in TransportFaults :
         stdout' = Append(stdout, outcome_line("other", records[idx].task_id, 0, <<fault>>))
    /\ idx' = idx + 1
    /\ pc' = "loop"
    /\ UNCHANGED <<environ, args, csvfile, file_opened, records, requests_sent,
                   responded, exception>>

\* requests.post raises: no try statement encloses the call, in
\* add_worklog_to_jira or in main, so the exception ends the run.
Post_TransportFault ==
    /\ pc = "post"
    /\ \E fault \in TransportFaults : exception' = fault
    /\ pc' = "raised"
    /\ UNCHANGED <<environ, args, csvfile, file_opened, records, idx, requests_sent,
                   responded, stdout>>

Next ==
    \/ Main_CheckCredentials
    \/ Main_ProcessCsv
    \/ Main_LoopEnd
    \/ Submit_Raise
    \/ Submit_DryRun
    \/ Submit_Post
    \/ Post_Response
    \/ Post_TransportFault

Spec == Init /\ [][Next]_vars

---------------------------------------------------------------------------
(* What the claims speak of *)

\* main has returned or an exception has ended it.
Terminated == pc \in {"done", "raised"}

\* The URL, the user name and the token are set, none of them empty.
CredentialsSet ==
    \A setting \in {environ.JIRA_URL, environ.JIRA_USERNAME, environ.JIRA_API_TOKEN} :
       setting \notin {None, <<>>}

LiveRun == CredentialsSet /\ ~args.dry_run

DryRun == CredentialsSet /\ args.dry_run

\* process_csv has returned its list to main.
Extracted == idx >= 1

HasColumn(fieldnames, name) == \E i \in 1..Len(fieldnames) : fieldnames[i] = name

\* The field of `row` under the header `name`, the header having such a
\* column: that of the last column of the name, None where the row ends
\* before it.
FieldOf(fieldnames, row, name) ==
    LET columns == {i \in 1..Len(fieldnames) : fieldnames[i] = name}
        i == CHOOSE i \in columns : \A j \in columns : j <= i
    IN  IF i <= Len(row) THEN row[i] ELSE None

\* The row has a description and the regex matches it.
RowMatches(fieldnames, row) ==
    /\ row # <<>>
    /\ HasColumn(fieldnames, column_names.description)
    /\ FieldOf(fieldnames, row, column_names.description) # None
    /\ re_match(FieldOf(fieldnames, row, column_names.description)).matched

\* The rows of the file whose description matches, in file order.
MatchingRows(file) ==
    LET Matching(row) == RowMatches(file.fieldnames, row)
    IN  SelectSeq(file.rows, Matching)

\* The capture groups of the description of a matching row.
GroupsOf(fieldnames, row) == re_match(FieldOf(fieldnames, row, column_names.description))

\* The duration of the row is a text that int() rejects.
NonNumericDuration(fieldnames, row) ==
    /\ HasColumn(fieldnames, column_names.duration)
    /\ FieldOf(fieldnames, row, column_names.duration) # None
    /\ py_int(FieldOf(fieldnames, row, column_names.duration)).raised = "ValueError"

\* A row process_csv gets through: a blank line, a row with a description
\* that does not match, or a matching row with an integer duration under a
\* header that has the four columns.
RowWellFormed(fieldnames, row) ==
    \/ row = <<>>
    \/ /\ HasColumn(fieldnames, column_names.description)
       /\ FieldOf(fieldnames, row, column_names.description) # None
       /\ RowMatches(fieldnames, row) =>
            /\ HasColumn(fieldnames, column_names.duration)
            /\ HasColumn(fieldnames, column_names.date)
            /\ HasColumn(fieldnames, column_names.time)
            /\ py_int(FieldOf(fieldnames, row, column_names.duration)).raised = NoException

WellFormed(file) ==
    /\ file.exists
    /\ \A i \in 1..Len(file.rows) : RowWellFormed(file.fieldnames, file.rows[i])

\* The file without its i-th data row.
WithoutRow(file, i) == [file EXCEPT !.rows = DropNth(file.rows, i)]

\* The start time of the record is one strptime accepts.
StartTimeParses(record) == strptime(record.start_time).raised = NoException

TimezoneKnown == environ.TIMEZONE \in DOMAIN UtcOffset

---------------------------------------------------------------------------
(* C1 *)

\* C1: in a live run the POSTs are the records in CSV row order, one each:
\* the i-th POST made is the POST of the i-th matching row of the file; none
\* is made before process_csv has returned; each is made only when every
\* earlier one has been answered and its answer printed; and a run that
\* returns normally has made exactly one POST per record.
C1_OnePostPerRecordInOrder ==
    LiveRun =>
      /\ requests_sent # <<>> => Extracted /\ pc \notin {"main", "process_csv"}
      /\ Len(requests_sent) <= Len(MatchingRows(csvfile))
      /\ \A i \in 1..Len(requests_sent) :
           LET row == MatchingRows(csvfile)[i]
               groups == GroupsOf(csvfile.fieldnames, row)
           IN  /\ requests_sent[i].url = environ.JIRA_URL \o <<"/rest/api/3/issue/">>
                                           \o groups.group1 \o <<"/worklog">>
               /\ requests_sent[i].payload.comment = groups.group3
               /\ requests_sent[i].payload.comment = records[i].task_description
               /\ requests_sent[i].payload.timeSpentSeconds = records[i].time_spent_seconds
      /\ pc = "post" => /\ Len(requests_sent) = idx
                        /\ responded = idx - 1 /\ Len(stdout) = idx - 1
      /\ pc = "loop" => /\ Len(requests_sent) = idx - 1
                        /\ responded = idx - 1 /\ Len(stdout) = idx - 1
      /\ pc = "done" => /\ Len(requests_sent) = Len(records)
                        /\ Len(requests_sent) = Len(MatchingRows(csvfile))
                        /\ responded = Len(records)

\* A live run returned normally after two POSTs.
C1_Witness ==
    LiveRun /\ pc = "done" /\ Len(requests_sent) = 2 /\ responded = 2

---------------------------------------------------------------------------
(* C2 *)

\* C2: in a dry run no POST is ever made and no response awaited, and the
\* i-th line printed is the would-be action of the i-th record: its task id,
\* seconds, formatted start and description. Every record the loop has
\* passed has its line, so a dry run that returns has printed one line per
\* record.
C2_DryRunNeverPosts ==
    DryRun =>
      /\ requests_sent = <<>> /\ responded = 0 /\ pc # "post"
      /\ \A i \in 1..Len(stdout) :
           /\ i <= Len(records)
           /\ stdout[i].kind = "dry_run"
           /\ stdout[i].task_id = records[i].task_id
           /\ stdout[i].seconds = records[i].time_spent_seconds
           /\ stdout[i].text = records[i].task_description
           /\ StartTimeParses(records[i]) /\ TimezoneKnown
           /\ stdout[i].started = strftime(strptime(records[i].start_time),
                                           UtcOffset[environ.TIMEZONE])
      /\ pc = "loop" => Len(stdout) = idx - 1
      /\ pc = "done" => Len(stdout) = Len(records)
      /\ (Extracted /\ TimezoneKnown /\ \A i \in 1..Len(records) : StartTimeParses(records[i]))
            => pc \in {"loop", "done"}

\* A dry run returned after two lines, the file having two matching rows.
C2_Witness ==
    DryRun /\ pc = "done" /\ Len(stdout) = 2 /\ Len(MatchingRows(csvfile)) = 2

---------------------------------------------------------------------------
(* C3 *)

\* C3: the list process_csv returns is the matching rows of the file in file
\* order, one record each, with task_id the first and task_description the
\* third capture group; process_csv returns it for every file of well-formed
\* rows; and the list is the one it returns for the file without any one of
\* its rows that does not match.
C3_ExtractionIsOrderedFilter ==
    /\ Extracted =>
         /\ Len(records) = Len(MatchingRows(csvfile))
         /\ \A i \in 1..Len(records) :
              LET row == MatchingRows(csvfile)[i]
                  groups == GroupsOf(csvfile.fieldnames, row)
              IN  /\ records[i].task_id = groups.group1
                  /\ records[i].task_description = groups.group3
                  /\ records[i].time_spent_seconds =
                       py_int(FieldOf(csvfile.fieldnames, row, column_names.duration)).value
         /\ \A i \in 1..Len(csvfile.rows) :
              ~RowMatches(csvfile.fieldnames, csvfile.rows[i]) =>
                 /\ process_csv(WithoutRow(csvfile, i), column_names).raised = NoException
                 /\ process_csv(WithoutRow(csvfile, i), column_names).records = records
    /\ (CredentialsSet /\ pc \notin {"main", "process_csv"} /\ WellFormed(csvfile))
          => Extracted

\* Extraction has returned one record for a file of two rows, the first of
\* which does not match.
C3_Witness ==
    /\ Extracted /\ Len(records) = 1 /\ Len(csvfile.rows) = 2
    /\ csvfile.rows[1] # <<>>
    /\ ~RowMatches(csvfile.fieldnames, csvfile.rows[1])

---------------------------------------------------------------------------
(* C6 *)

\* C6: with the URL, the user name or the token unset or empty, in a dry run
\* as in a live one, the file is never opened, no record extracted, nothing
\* posted and no action printed: the run prints the one message and returns.
C6_MissingCredentialsStopBeforeProcessing ==
    ~CredentialsSet =>
      /\ ~file_opened
      /\ records = <<>> /\ idx = 0
      /\ requests_sent = <<>> /\ responded = 0
      /\ exception = NoException
      /\ pc \in {"main", "done"}
      /\ pc = "main" => stdout = <<>>
      /\ pc = "done" => stdout = <<outcome_line("missing_credentials", <<>>, 0, <<>>)>>

\* A dry run without the token has returned, the file holding a row to submit.
C6_Witness ==
    /\ environ.JIRA_API_TOKEN = None /\ args.dry_run /\ pc = "done"
    /\ csvfile.exists /\ Len(MatchingRows(csvfile)) >= 1 /\ WellFormed(csvfile)

---------------------------------------------------------------------------
(* C7 *)

\* The i-th row of the file matches and has a duration int() rejects.
NonNumericAt(file, i) ==
    /\ RowMatches(file.fieldnames, file.rows[i])
    /\ NonNumericDuration(file.fieldnames, file.rows[i])

\* C7: with a matching row whose duration is not numeric in the file, a run
\* with credentials submits nothing, not even the matching rows before that
\* row (nothing posted, nothing printed, no record handed to the loop), and
\* never returns normally: it ends in an exception, which is the ValueError
\* of that row when the rows before it are well-formed.
C7_NonNumericDurationFailsRun ==
    \A i \in 1..Len(csvfile.rows) :
      (CredentialsSet /\ csvfile.exists /\ NonNumericAt(csvfile, i)) =>
         /\ requests_sent = <<>> /\ stdout = <<>> /\ records = <<>> /\ ~Extracted
         /\ pc \in {"main", "process_csv", "raised"}
         /\ pc = "raised" => exception \in {"ValueError", "KeyError", "TypeError"}
         /\ (pc = "raised" /\ \A j \in 1..(i - 1) :
                                 RowWellFormed(csvfile.fieldnames, csvfile.rows[j]))
               => exception = "ValueError"

\* The run has ended in the ValueError of the second row, the first row
\* being one that would have been submitted.
C7_Witness ==
    /\ CredentialsSet /\ Len(csvfile.rows) = 2 /\ NonNumericAt(csvfile, 2)
    /\ RowMatches(csvfile.fieldnames, csvfile.rows[1])
    /\ RowWellFormed(csvfile.fieldnames, csvfile.rows[1])
    /\ pc = "raised" /\ exception = "ValueError"

---------------------------------------------------------------------------
(* C4 *)

\* C4: in a live run every response received has had its outcome printed,
\* whatever its status and body, and the loop has gone on to the next record:
\* no response ends the run in an exception.
C4_EveryResponseReported ==
    LiveRun =>
      /\ Len(stdout) = responded
      /\ (Extracted /\ pc # "post") => idx = responded + 1

---------------------------------------------------------------------------
(* C5 *)

\* C5 as stated: a live run that a transport fault has hit still ends with a
\* POST made and an outcome printed for every record.
C5_TransportFaultDoesNotStopRun ==
    (LiveRun /\ Terminated /\ exception \in TransportFaults) =>
       /\ Len(requests_sent) = Len(records)
       /\ Len(stdout) = Len(records)

\* C5, amended: a transport fault on the POST of a record ends the run in
\* that exception. Nothing is printed for the record (every line of a live
\* run stems from a response received, and the loop advances only with a line
\* printed), and no later record is posted: the POSTs made are the records up
\* to the faulted one, and no step of the run remains.
C5_TransportFaultEndsRun ==
    LiveRun =>
      /\ Len(stdout) <= responded
      /\ Extracted => idx = Len(stdout) + 1
      /\ exception \in TransportFaults =>
           /\ pc = "raised"
           /\ Len(requests_sent) = idx /\ responded = idx - 1
           /\ ~ENABLED Next

\* A transport fault on the first of two records has ended the run.
C5_Witness ==
    /\ LiveRun /\ exception \in TransportFaults
    /\ Len(records) = 2 /\ idx = 1 /\ Len(requests_sent) = 1 /\ stdout = <<>>

---------------------------------------------------------------------------
(* C8 *)

\* The header of the file lacks one of the four mapped columns.
LacksColumn(file) ==
    \/ ~HasColumn(file.fieldnames, column_names.description)
    \/ ~HasColumn(file.fieldnames, column_names.duration)
    \/ ~HasColumn(file.fieldnames, column_names.date)
    \/ ~HasColumn(file.fieldnames, column_names.time)

\* The i-th row makes process_csv look a missing column up: any row that is
\* not blank when there is no description column, a matching row otherwise.
LooksUpMissingColumn(file, i) ==
    /\ LacksColumn(file)
    /\ file.rows[i] # <<>>
    /\ \/ ~HasColumn(file.fieldnames, column_names.description)
       \/ RowMatches(file.fieldnames, file.rows[i])

\* The lookup of the missing column is the first thing to fail in the i-th
\* row: the description or the duration column is the missing one, or the
\* duration of the row is an integer.
MissingColumnFailsFirst(file, i) ==
    \/ ~HasColumn(file.fieldnames, column_names.description)
    \/ ~HasColumn(file.fieldnames, column_names.duration)
    \/ py_int(FieldOf(file.fieldnames, file.rows[i], column_names.duration)).raised
          = NoException

\* C8 as stated: with a mapped column missing from the header the run never
\* returns normally, whatever the data rows.
C8_MissingColumnAlwaysFails ==
    (CredentialsSet /\ csvfile.exists /\ LacksColumn(csvfile) /\ Terminated) =>
       pc = "raised"

\* C8, amended: with a mapped column missing from the header nothing is
\* submitted for any set of data rows, and the run fails exactly when a row
\* makes process_csv look the column up (any data row for the description
\* column, a matching row for the others): with the missing-key error when
\* that row is the first to fail. A file with no such row (no data rows, or
\* none that matches) is read to its end and the run returns normally with
\* no record.
C8_MissingColumnFailsAtFirstLookup ==
    (CredentialsSet /\ csvfile.exists /\ LacksColumn(csvfile)) =>
       /\ requests_sent = <<>> /\ stdout = <<>> /\ records = <<>>
       /\ \A i \in 1..Len(csvfile.rows) :
            LooksUpMissingColumn(csvfile, i) =>
               /\ pc # "done" /\ ~Extracted
               /\ (/\ pc = "raised"
                   /\ MissingColumnFailsFirst(csvfile, i)
                   /\ \A j \in 1..(i - 1) :
                         /\ ~LooksUpMissingColumn(csvfile, j)
                         /\ RowWellFormed(csvfile.fieldnames, csvfile.rows[j]))
                     => exception = "KeyError"
       /\ (/\ Terminated
           /\ \A i \in 1..Len(csvfile.rows) :
                 /\ ~LooksUpMissingColumn(csvfile, i)
                 /\ RowWellFormed(csvfile.fieldnames, csvfile.rows[i]))
             => pc = "done"

\* The run has ended in the KeyError of the second row, a matching row of a
\* file without the duration column whose first row does not match.
C8_Witness ==
    /\ CredentialsSet /\ csvfile.exists
    /\ ~HasColumn(csvfile.fieldnames, column_names.duration)
    /\ Len(csvfile.rows) = 2
    /\ csvfile.rows[1] # <<>> /\ ~LooksUpMissingColumn(csvfile, 1)
    /\ LooksUpMissingColumn(csvfile, 2)
    /\ pc = "raised" /\ exception = "KeyError"

---------------------------------------------------------------------------
(* C9 *)

\* C9: every record extracted has non-negative seconds, and so has every
\* payload posted.
C9_SecondsNonNegative ==
    /\ \A i \in 1..Len(records) : records[i].time_spent_seconds >= 0
    /\ \A i \in 1..Len(requests_sent) : requests_sent[i].payload.timeSpentSeconds >= 0

---------------------------------------------------------------------------
(* C10 *)

\* The k-th record is the first whose start time strptime rejects.
FirstBadStartTime(k) ==
    /\ k \in 1..Len(records)
    /\ ~StartTimeParses(records[k])
    /\ \A j \in 1..(k - 1) : StartTimeParses(records[j])

\* The records submitted so far: lines printed in a dry run, POSTs made in a
\* live one.
Submitted == IF args.dry_run THEN Len(stdout) ELSE Len(requests_sent)

\* C10 as stated: the run ends at the first record k whose start time does
\* not parse, with exactly the records before k submitted. It is stated here
\* for the runs with a known time zone that no response has ended in an
\* exception, where it still fails: a transport fault ends a live run at an
\* earlier record.
C10_AbortsAtBadStartTime ==
    \A k \in 1..Len(records) :
      (/\ Extracted /\ FirstBadStartTime(k) /\ Terminated
       /\ TimezoneKnown /\ exception \notin {"JSONDecodeError", "AttributeError"}) =>
         pc = "raised" /\ idx = k /\ Submitted = k - 1

\* C10, amended: the start time is parsed at submission and before dry_run
\* is read, so with k the first record whose start time does not parse, no
\* record from k on is ever printed or posted, in a dry run or a live one,
\* and the run never returns normally. It ends at record k, with exactly the
\* records before k submitted, unless the submission of an earlier record
\* raised (an unknown time zone, a transport fault, or a 400 whose body does
\* not decode to an object); in a dry run with a known time zone it always
\* ends at k, in the ValueError of strptime.
C10_NothingSubmittedFromBadStartTime ==
    \A k \in 1..Len(records) :
      (Extracted /\ FirstBadStartTime(k)) =>
         /\ idx <= k /\ Len(stdout) < k /\ Len(requests_sent) < k
         /\ pc # "done"
         /\ idx = k => /\ pc \in {"loop", "raised"}
                       /\ Submitted = k - 1
                       /\ pc = "raised" =>
                            exception \in {"ValueError", "UnknownTimeZoneError"}
         /\ (pc = "raised" /\ idx < k) =>
               /\ exception \in TransportFaults \cup
                     {"JSONDecodeError", "AttributeError", "UnknownTimeZoneError"}
               /\ args.dry_run => exception = "UnknownTimeZoneError"
         /\ (Terminated /\ TimezoneKnown /\ args.dry_run) =>
               idx = k /\ exception = "ValueError" /\ Len(stdout) = k - 1
         /\ (Terminated /\ exception = "ValueError") =>
               idx = k /\ Submitted = k - 1

\* A dry run has printed its first record and ended in the ValueError of the
\* second.
C10_Witness ==
    /\ DryRun /\ Extracted /\ FirstBadStartTime(2)
    /\ pc = "raised" /\ exception = "ValueError" /\ idx = 2 /\ Len(stdout) = 1

====
